---- MODULE Spec2Model ----
(***************************************************************************)
(* Model of research/test_gpus.py: main() allocates float32 arrays, runs   *)
(* the two numba ufuncs vectorAdd and vectorMultiply over them, times each *)
(* trial with timeit.default_timer and prints boundary samples.            *)
(*                                                                         *)
(* One action per statement of main(); pc is the source line of the next   *)
(* statement.  float32 values are written as the integers they equal       *)
(* (0.0, 1.0, 2.0 are exact in IEEE-754 single precision, and so are the   *)
(* sums and products formed from them here).  The array size N, fixed at   *)
(* 32000000 in the source, is drawn from 1..MaxN.  Timer readings are      *)
(* whole ticks of a clock that never runs backwards; the clock is only     *)
(* observed by timer(), so it advances at those reads.                     *)
(***************************************************************************)
EXTENDS Integers, Sequences, FiniteSets

\* ---------------------------------------------------------------- bounds
MaxN == 6
MaxTick == 1
MaxRuns == 2
MaxAvail == 7

\* ------------------------------------------------------- program constants
\* the 5 of C[:5], C[-5:], G[:5], G[-5:]
SampleLen == 5

Names == {"A", "B", "C", "E", "F", "G"}
\* an unbound local name / an unbound scalar
None == 0
Unbound == 0 - 1

VARIABLES
    N,                      \* array size (line 15)
    avail,                  \* how many N-element float32 arrays fit in memory
    pc,                     \* line of the next statement of main()
    status,                 \* "running", "done" or "MemoryError"
    env,                    \* main()'s array locals: name -> array id or None
    heap,                   \* live arrays: id -> contents
    start,                  \* local start
    vector_add_time,        \* local vector_add_time
    vector_multiply_time,   \* local vector_multiply_time
    now,                    \* last value the clock was seen at
    out,                    \* lines written to stdout, in order
    events,                 \* what main() has done so far, in order
    runs,                   \* number of launches of the script so far
    prev                    \* results of the previous launch

vars == <<N, avail, pc, status, env, heap, start, vector_add_time,
          vector_multiply_time, now, out, events, runs, prev>>

\* the shape of the state
TypeOK ==
    /\ N \in 1..MaxN
    /\ avail \in 0..MaxAvail
    /\ pc \in 16..43
    /\ status \in {"running", "done", "MemoryError"}
    /\ DOMAIN env = Names
    /\ \A n \in Names : env[n] = None \/ env[n] \in DOMAIN heap
    /\ \A i \in DOMAIN heap : Len(heap[i]) = N /\ \A k \in 1..N : heap[i][k] \in 0..2
    /\ start \in Int /\ vector_add_time \in Int /\ vector_multiply_time \in Int
    /\ now \in Nat
    /\ runs \in 1..MaxRuns
    /\ Len(events) >= 0 /\ Len(out) <= 6

\* ------------------------------------------------------------- pure parts
Min(a, b) == IF a < b THEN a ELSE b
Max(a, b) == IF a > b THEN a ELSE b

\* np.ones(n, dtype=np.float32), np.zeros(n, dtype=np.float32)
np_ones(n) == [i \in 1..n |-> 1]
np_zeros(n) == [i \in 1..n |-> 0]

\* the scalar kernels
vectorAdd_wrong(a, b) == a * b
vectorAdd_clock(a, b) == a + b + now
vectorAdd(a, b) == a + b

vectorMultiply_wrong(a, b) == a + b
vectorMultiply(a, b) == a * b

\* the scalar kernel a decorated name stands for
Scalar(kname, a, b) ==
    IF kname = "vectorAdd" THEN vectorAdd(a, b) ELSE vectorMultiply(a, b)

\* @vectorize: the scalar kernel applied to each index pair, into a new array
vectorize(kname, x, y) == [i \in 1..Len(x) |-> Scalar(kname, x[i], y[i])]

\* s[:k] and s[-k:] for k >= 0, as Python slices them (bounds are clamped)
SliceHead(s, k) == SubSeq(s, 1, Min(k, Len(s)))
SliceTail_wrong(s, k) == SubSeq(s, Min(k, Len(s)) + 1, Len(s))
SliceTail(s, k) == SubSeq(s, Max(Len(s) - k, 0) + 1, Len(s))

\* timer() - start
Elapsed_wrong(stop, begin) == begin - stop
Elapsed(stop, begin) == stop - begin

\* ------------------------------------------------------------ memory
Live == DOMAIN heap
FreshId == CHOOSE i \in 1..(Cardinality(Live) + 1) : i \notin Live
CanAllocate == Cardinality(Live) < avail

\* the contents of the array a name is bound to (<<>> when unbound)
Deref(name) == IF env[name] = None THEN <<>> ELSE heap[env[name]]

\* name = <new array holding contents>: the new array is created first, then
\* the name is rebound and an array no name refers to any more is freed
BindNew(name, contents) ==
    LET id == FreshId
        e2 == [env EXCEPT ![name] = id]
        h2 == [i \in Live \cup {id} |-> IF i = id THEN contents ELSE heap[i]]
    IN  /\ env' = e2
        /\ heap' = [i \in {e2[n] : n \in Names} \ {None} |-> h2[i]]

\* X = kernel(Y, Z): the ufunc returns a new array, which X is then bound to
StoreResult_inplace(name, contents) ==
    LET target == IF name = "C" THEN env["A"] ELSE env["E"]
        e2 == [env EXCEPT ![name] = target]
        h2 == [heap EXCEPT ![target] = contents]
    IN  /\ env' = e2
        /\ heap' = [i \in {e2[n] : n \in Names} \ {None} |-> h2[i]]
StoreResult(name, contents) == BindNew(name, contents)

Event(kind, what) == [kind |-> kind, what |-> what, at |-> now]
Log(kind, what) == events' = Append(events, Event(kind, what))

\* an exception nothing in main() catches: the process ends where it is
Raise_continue(exc) ==
    /\ status' = IF pc < 29 THEN "running" ELSE exc
    /\ pc' = IF pc < 29 THEN 29 ELSE pc
    /\ Log("raise", exc)
    /\ UNCHANGED <<N, avail, env, heap, start, vector_add_time,
                   vector_multiply_time, now, out, runs, prev>>
Raise(exc) ==
    /\ status' = exc
    /\ Log("raise", exc)
    /\ UNCHANGED <<N, avail, pc, env, heap, start, vector_add_time,
                   vector_multiply_time, now, out, runs, prev>>

\* ------------------------------------------------------------ statements
At(line) == status = "running" /\ pc = line

\* X = np.ones(N, ...) / X = np.zeros(N, ...)
Alloc(line, name, contents, next) ==
    /\ At(line)
    /\ IF CanAllocate
       THEN /\ BindNew(name, contents)
            /\ pc' = next
            /\ Log("alloc", name)
            /\ UNCHANGED <<N, avail, status, start, vector_add_time,
                           vector_multiply_time, now, out, runs, prev>>
       ELSE Raise("MemoryError")

\* start = timer()
StartTimer(line, next) ==
    /\ At(line)
    /\ \E d \in 0..MaxTick :
          /\ now' = now + d
          /\ start' = now + d
          /\ events' = Append(events, [kind |-> "timer", what |-> "start", at |-> now + d])
    /\ pc' = next
    /\ UNCHANGED <<N, avail, status, env, heap, vector_add_time,
                   vector_multiply_time, out, runs, prev>>

\* X = kernel(Y, Z)
Kernel(line, name, kname, x, y, next) ==
    /\ At(line)
    /\ IF CanAllocate
       THEN /\ StoreResult(name, vectorize(kname, Deref(x), Deref(y)))
            /\ pc' = next
            /\ Log("kernel", kname)
            /\ UNCHANGED <<N, avail, status, start, vector_add_time,
                           vector_multiply_time, now, out, runs, prev>>
       ELSE Raise("MemoryError")

\* print(label + str(value))
PrintLine_skip(line, label, value, next) ==
    /\ At(line)
    /\ pc' = next
    /\ UNCHANGED <<N, avail, status, env, heap, start, vector_add_time,
                   vector_multiply_time, now, out, events, runs, prev>>
PrintLine(line, label, value, next) ==
    /\ At(line)
    /\ out' = Append(out, [label |-> label, value |-> value])
    /\ Log("print", label)
    /\ pc' = next
    /\ UNCHANGED <<N, avail, status, env, heap, start, vector_add_time,
                   vector_multiply_time, now, runs, prev>>

AllocA == Alloc(16, "A", np_ones(N), 17)
AllocB == Alloc(17, "B", np_ones(N), 18)
AllocC == Alloc(18, "C", np_zeros(N), 20)
StartAdd == StartTimer(20, 21)
RunAdd == Kernel(21, "C", "vectorAdd", "A", "B", 22)
StopAdd ==
    /\ At(22)
    /\ \E d \in 0..MaxTick :
          /\ now' = now + d
          /\ vector_add_time' = Elapsed(now + d, start)
          /\ events' = Append(events, [kind |-> "timer", what |-> "stop", at |-> now + d])
    /\ pc' = 24
    /\ UNCHANGED <<N, avail, status, env, heap, start, vector_multiply_time,
                   out, runs, prev>>
PrintCHead == PrintLine(24, "C[:5] = ", SliceHead(Deref("C"), SampleLen), 25)
PrintCTail == PrintLine(25, "C[-5:] = ", SliceTail(Deref("C"), SampleLen), 27)
PrintAddTime == PrintLine(27, "VectorAdd took", <<vector_add_time>>, 29)
StartMul == StartTimer(29, 31)
AllocE == Alloc(31, "E", np_ones(N), 32)
AllocF == Alloc(32, "F", np_ones(N), 33)
AllocG == Alloc(33, "G", np_zeros(N), 34)
RunMul == Kernel(34, "G", "vectorMultiply", "E", "F", 36)
StopMul ==
    /\ At(36)
    /\ \E d \in 0..MaxTick :
          /\ now' = now + d
          /\ vector_multiply_time' = Elapsed(now + d, start)
          /\ events' = Append(events, [kind |-> "timer", what |-> "stop", at |-> now + d])
    /\ pc' = 38
    /\ UNCHANGED <<N, avail, status, env, heap, start, vector_add_time,
                   out, runs, prev>>
PrintGHead == PrintLine(38, "G[:5] = ", SliceHead(Deref("G"), SampleLen), 39)
PrintGTail == PrintLine(39, "G[-5:] = ", SliceTail(Deref("G"), SampleLen), 40)
\* the last statement: main() returns after it
PrintMulTime ==
    /\ At(40)
    /\ out' = Append(out, [label |-> "VectorMultiply took", value |-> <<vector_multiply_time>>])
    /\ Log("print", "VectorMultiply took")
    /\ pc' = 43
    /\ status' = "done"
    /\ UNCHANGED <<N, avail, env, heap, start, vector_add_time,
                   vector_multiply_time, now, runs, prev>>

\* the state main() starts in (N is bound by line 15)
Fresh ==
    /\ pc = 16
    /\ status = "running"
    /\ env = [n \in Names |-> None]
    /\ heap = <<>>
    /\ start = Unbound
    /\ vector_add_time = Unbound
    /\ vector_multiply_time = Unbound
    /\ now = 0
    /\ out = <<>>
    /\ events = <<>>

\* what a finished process leaves behind for comparison with the next launch
Results ==
    [C |-> IF pc > 21 THEN Deref("C") ELSE <<>>,
     G |-> IF pc > 34 THEN Deref("G") ELSE <<>>,
     add_time |-> vector_add_time,
     mul_time |-> vector_multiply_time]

\* if __name__ == '__main__': main()  -- the script is launched again, on the
\* same N, once the previous process has ended
Launch ==
    /\ status # "running"
    /\ runs < MaxRuns
    /\ runs' = runs + 1
    /\ prev' = Results
    /\ avail' \in 0..MaxAvail
    /\ pc' = 16
    /\ status' = "running"
    /\ env' = [n \in Names |-> None]
    /\ heap' = <<>>
    /\ start' = Unbound
    /\ vector_add_time' = Unbound
    /\ vector_multiply_time' = Unbound
    /\ now' = 0
    /\ out' = <<>>
    /\ events' = <<>>
    /\ UNCHANGED N

Init ==
    /\ N \in 1..MaxN
    /\ avail \in 0..MaxAvail
    /\ runs = 1
    /\ prev = [C |-> <<>>, G |-> <<>>, add_time |-> Unbound, mul_time |-> Unbound]
    /\ Fresh

Next ==
    \/ AllocA \/ AllocB \/ AllocC
    \/ StartAdd \/ RunAdd \/ StopAdd
    \/ PrintCHead \/ PrintCTail \/ PrintAddTime
    \/ StartMul \/ AllocE \/ AllocF \/ AllocG
    \/ RunMul \/ StopMul
    \/ PrintGHead \/ PrintGTail \/ PrintMulTime
    \/ Launch

Spec == Init /\ [][Next]_vars

\* ------------------------------------------------------------ properties
AllEqual(s, v) == \A i \in 1..Len(s) : s[i] = v
EvIdx(kind, what) ==
    {i \in 1..Len(events) : events[i].kind = kind /\ events[i].what = what}
Starts == EvIdx("timer", "start")
Stops == EvIdx("timer", "stop")
RaiseIdx == {i \in 1..Len(events) : events[i].kind = "raise"}
Labels == [k \in 1..Len(out) |-> out[k].label]
IsPrefix(s, t) == Len(s) <= Len(t) /\ \A i \in 1..Len(s) : s[i] = t[i]

\* C1: once the add kernel has run, C has exactly N elements, every one of
\* them 2.0, and every sample of C written to stdout shows 2.0 only: nothing
\* of the zero-filled array first bound to C is left.
C1_AddResult ==
    pc > 21 =>
        /\ Len(Deref("C")) = N
        /\ \A i \in 1..N : Deref("C")[i] = 2
        /\ \A k \in 1..Len(out) :
              out[k].label \in {"C[:5] = ", "C[-5:] = "} => AllEqual(out[k].value, 2)
C1_Witness ==
    /\ N = 5 /\ pc > 25
    /\ Deref("C") = <<2, 2, 2, 2, 2>>
    /\ out[1].value = <<2, 2, 2, 2, 2>>

\* C2: once the multiply kernel has run, G has exactly N elements, every one
\* of them 1.0.
C2_MultiplyResult ==
    pc > 34 =>
        /\ Len(Deref("G")) = N
        /\ \A i \in 1..N : Deref("G")[i] = 1
        /\ \A k \in 1..Len(out) :
              out[k].label \in {"G[:5] = ", "G[-5:] = "} => AllEqual(out[k].value, 1)
C2_Witness ==
    /\ N = 5 /\ pc > 39
    /\ Deref("G") = <<1, 1, 1, 1, 1>>
    /\ out[4].value = <<1, 1, 1, 1, 1>>

\* C3: in every trial, whatever happens after a timer start and before the
\* next timer read is the kernel invocation (or its failure) and nothing
\* else; in particular no array is allocated inside a timing window.
C3_OnlyKernelTimed ==
    \A i \in Starts : \A j \in (i + 1)..Len(events) :
        (\A k \in (i + 1)..j : events[k].kind # "timer")
            => events[j].kind \in {"kernel", "raise"}

\* C5 as stated: when the process has ended after a failure in the add trial,
\* the multiply trial has nevertheless run to completion, with its result and
\* its duration.
AddTrialFailed ==
    \E i \in RaiseIdx : Cardinality({j \in Starts : j < i}) < 2
C5_LaterTrialStillRuns ==
    (status # "running" /\ AddTrialFailed) =>
        /\ Deref("G") = np_ones(N)
        /\ vector_multiply_time >= 0
\* C5 as amended: an allocation failure ends the whole run at the failing
\* statement.  Nothing happens after it; the failed trial reports no line and
\* no duration; a failure in the add trial leaves the multiply trial unrun;
\* a failure in the multiply trial leaves the add trial's result and its
\* three reported lines as they were.
C5_FailureEndsRun ==
    /\ \A i \in RaiseIdx : i = Len(events) /\ status = "MemoryError"
    /\ status = "MemoryError" =>
        /\ RaiseIdx # {}
        /\ vector_multiply_time = Unbound
        /\ EvIdx("kernel", "vectorMultiply") = {}
        /\ pc < 29 =>
              /\ out = <<>>
              /\ vector_add_time = Unbound
              /\ Cardinality(Starts) <= 1
              /\ env["E"] = None /\ env["F"] = None /\ env["G"] = None
        /\ pc >= 29 =>
              /\ Labels = <<"C[:5] = ", "C[-5:] = ", "VectorAdd took">>
              /\ Deref("C") = [i \in 1..N |-> 2]
              /\ AllEqual(out[1].value, 2) /\ AllEqual(out[2].value, 2)
              /\ out[3].value = <<vector_add_time>>
              /\ vector_add_time >= 0
C5_Witness ==
    /\ status = "MemoryError" /\ pc = 21 /\ avail = 3
    /\ Deref("A") = np_ones(N) /\ out = <<>>

\* C6: every duration main() computes and reports is >= 0.
C6_DurationNonNegative ==
    /\ pc > 22 => vector_add_time >= 0
    /\ pc > 36 => vector_multiply_time >= 0
    /\ \A k \in 1..Len(out) :
          out[k].label \in {"VectorAdd took", "VectorMultiply took"}
              => out[k].value[1] >= 0
C6_Witness ==
    /\ status = "done"
    /\ vector_add_time = 0
    /\ vector_multiply_time > 0
    /\ out[6].value = <<vector_multiply_time>>

\* C7: a launch of the script on the same N yields the same result arrays as
\* the launch before it, element for element, whatever the timer read in
\* either launch.
C7_Deterministic ==
    /\ (pc > 21 /\ prev.C # <<>>) => Deref("C") = prev.C
    /\ (pc > 34 /\ prev.G # <<>>) => Deref("G") = prev.G
C7_Witness ==
    /\ runs = 2 /\ status = "done"
    /\ prev.C = Deref("C") /\ prev.G = Deref("G") /\ Len(prev.G) = N
    /\ prev.add_time # vector_add_time
    /\ prev.mul_time # vector_multiply_time

\* C8: the trials run one after the other.  Timer reads alternate start, stop;
\* when the second timing window opens the first one has been closed, no
\* later than the second opens, and the add trial's three lines have been
\* written in between, in the order head sample, tail sample, duration; the
\* lines on stdout keep that order in both trials.
C8_Sequential ==
    /\ \A i \in Starts \cup Stops :
          events[i].what =
              (IF Cardinality({j \in Starts \cup Stops : j < i}) % 2 = 0
               THEN "start" ELSE "stop")
    /\ \A i \in Starts : \A j \in Starts : i < j =>
          \E s \in Stops :
             /\ i < s /\ s < j
             /\ events[s].at <= events[j].at
             /\ \E p1 \in EvIdx("print", "C[:5] = ") :
                \E p2 \in EvIdx("print", "C[-5:] = ") :
                \E p3 \in EvIdx("print", "VectorAdd took") :
                    s < p1 /\ p1 < p2 /\ p2 < p3 /\ p3 < j
    /\ IsPrefix(Labels, <<"C[:5] = ", "C[-5:] = ", "VectorAdd took",
                          "G[:5] = ", "G[-5:] = ", "VectorMultiply took">>)
    /\ Len(out) > 3 => Cardinality(Stops) = 2
C8_Witness ==
    /\ status = "done"
    /\ Len(out) = 6
    /\ Cardinality(Starts) = 2 /\ Cardinality(Stops) = 2

\* the two samples of arr, taken with `len` elements each
SampleOf(arr, head, tail, len) ==
    /\ Len(head) = len
    /\ Len(tail) = len
    /\ \A k \in 1..len : head[k] = arr[k] /\ tail[k] = arr[Len(arr) - len + k]
NoAlias ==
    \A n \in Names : \A m \in Names :
        (n # m /\ env[n] # None /\ env[m] # None) => env[n] # env[m]
InputsKept ==
    /\ pc > 21 => Deref("A") = np_ones(N) /\ Deref("B") = np_ones(N)
    /\ pc > 34 => Deref("E") = np_ones(N) /\ Deref("F") = np_ones(N)
MultiplyFrame ==
    (pc >= 29 /\ pc' >= 29) =>
        /\ Deref("A")' = Deref("A")
        /\ Deref("B")' = Deref("B")
        /\ Deref("C")' = Deref("C")
C10_Frame == [](NoAlias /\ InputsKept) /\ [][MultiplyFrame]_vars
C10_Witness ==
    /\ status = "done"
    /\ \A n \in Names : env[n] # None
    /\ Cardinality({env[n] : n \in Names}) = 6
    /\ Deref("C") = [i \in 1..N |-> 2]

====
